---------------------------- MODULE Spec2Model ----------------------------
(***************************************************************************)
(* The SMS sender service: the admission gate of GET /api/sms (rate        *)
(* limiter, validation, per-destination cooldown), the provider call and   *)
(* its commit / rollback, and the periodic cooldown sweep.                 *)
(*                                                                         *)
(* Two entry files exist: the regional (Philippine, Twilio) server of      *)
(* src/unnamed/part_000 and the generic server of src/server.js.  The      *)
(* variable app says which of the two is running.                          *)
(*                                                                         *)
(* Strings the code inspects are sequences: a phone number, a sender and a *)
(* text are sequences of one-character strings; a message (an error text)  *)
(* is a sequence of fragments.  A query parameter that is absent or empty  *)
(* is the empty sequence (both are falsy for the code's !x test).          *)
(*                                                                         *)
(* The event loop runs one callback at a time: running names the request   *)
(* whose handler is executing synchronously; it is empty when the loop is  *)
(* idle and may start a new callback.                                      *)
(***************************************************************************)
EXTENDS Integers, Sequences, FiniteSets, TLC

VARIABLES
    app,        \* "regional" (part_000) or "generic" (server.js)
    now,        \* the wall clock, Date.now(), in ms
    cooldown,   \* part_000: const cooldown = new Map(): destination -> timestamp
    hits,       \* the rate limiter's store: source address -> [count, resetTime]
    reqs,       \* the requests received so far: id -> the handler's locals and response
    running,    \* the request whose handler holds the event loop: {} or {r}
    nextSweep   \* when the setInterval callback is next due

vars == <<app, now, cooldown, hits, reqs, running, nextSweep>>

----------------------------------------------------------------------------
(* Bounds of the model.                                                    *)

MaxReqs == 3        \* requests received, in the cooldown specification
MaxSweepReqs == 2   \* the same, in the sweep specification
MaxRateReqs == 7    \* the same, in the rate limiter's specification
MaxVariantReqs == 2 \* the same, in the two-variant specification
MaxWindows == 2     \* the clock's horizon, in cooldown windows or retention periods
MaxNormReqs == 1    \* requests received, in the normalization specification
MaxIndepReqs == 3   \* the same, in the two-destination specification

(* Program constants.                                                      *)

CooldownMs == 10000         \* part_000 line 88
RetentionMs == 3600000      \* part_000 line 165
SweepIntervalMs == 600000   \* part_000 line 169
RateWindowMs == 900000      \* part_000 line 17: 15 * 60 * 1000
MaxTextLen == 160           \* part_000 line 72, server.js line 37
MaxSenderLen == 11          \* part_000 line 79
SimulatedDelayMs == 1000    \* server.js line 61

\* The rate limiter's specification runs the clock over the first rate
\* window and the instant it has elapsed; the two-variant specification
\* until a simulated delay can end.
RateHorizon == 1 + RateWindowMs
VariantHorizon == 1 + SimulatedDelayMs

\* The mutant of RateMax: one request more let through.
RateMaxOffByOne == 5 + 1

\* max: 5 (part_000 line 18)
RateMax == 5

----------------------------------------------------------------------------
(* Strings.                                                                *)

Digits == {"0", "1", "2", "3", "4", "5", "6", "7", "8", "9"}

\* /\s/: the white space of the inputs (space and tab stand for the class).
IsSpace(c) == c \in {" ", "\t"}

\* /[\s\-]/
IsSpaceOrHyphen(c) == IsSpace(c) \/ c = "-"

AllDigits(s) == \A i \in 1..Len(s) : s[i] \in Digits

StartsWith(s, p) == Len(s) >= Len(p) /\ SubSeq(s, 1, Len(p)) = p

\* A string of n characters.
Str(n) == [i \in 1..n |-> "x"]

\* phone.replace(/[\s\-]/g, '')
StripSeparators(s) == SelectSeq(s, LAMBDA c : ~IsSpaceOrHyphen(c))

\* /^(\+639|09)\d{9}$/.test(s)
PhRegex(s) ==
    \/ /\ Len(s) = 13
       /\ StartsWith(s, <<"+", "6", "3", "9">>)
       /\ AllDigits(SubSeq(s, 5, 13))
    \/ /\ Len(s) = 11
       /\ StartsWith(s, <<"0", "9">>)
       /\ AllDigits(SubSeq(s, 3, 11))

\* function isValidPhilippinePhone(phone)
isValidPhilippinePhone(phone) == PhRegex(StripSeparators(phone))

\* The canonical form of a destination: the separators stripped, then the
\* local 09 form rewritten to +639.
CanonicalForm(phone) ==
    LET c == StripSeparators(phone)
    IN  IF StartsWith(c, <<"0", "9">>)
        THEN <<"+", "6", "3", "9">> \o SubSeq(c, 3, Len(c))
        ELSE c

\* The mutant of RewritePhone: the plus sign of the prefix left out.
RewritePhoneNoPlus(phone) ==
    IF StartsWith(phone, <<"0", "9">>)
    THEN <<"6", "3", "9">> \o SubSeq(phone, 3, Len(phone))
    ELSE phone

\* phone = phone.replace(/^09/, '+639'): applied to the raw parameter.
RewritePhone(phone) ==
    IF StartsWith(phone, <<"0", "9">>)
    THEN <<"+", "6", "3", "9">> \o SubSeq(phone, 3, Len(phone))
    ELSE phone

\* server.js: /^\+?[1-9]\d{1,14}$/.test(phone.replace(/\s/g, ''))
GenericPhoneValid(phone) ==
    LET c == SelectSeq(phone, LAMBDA ch : ~IsSpace(ch))
        d == IF Len(c) >= 1 /\ c[1] = "+" THEN SubSeq(c, 2, Len(c)) ELSE c
    IN  /\ Len(d) >= 2
        /\ Len(d) <= 15
        /\ AllDigits(d)
        /\ d[1] # "0"

\* error.message.includes(fragment), on a message given as its fragments.
Includes(msg, fragment) == \E i \in 1..Len(msg) : msg[i] = fragment

----------------------------------------------------------------------------
(* Responses.                                                              *)

MsgMissing == <<"Missing required parameters: phone, sender, text">>
MsgInvalidPh == <<"Invalid Philippine phone number format. Use 09XXXXXXXXX or +639XXXXXXXXX">>
MsgInvalidGeneric == <<"Invalid phone number format">>
MsgTooLong == <<"Message too long (max 160 characters)">>
MsgSenderTooLong == <<"Sender name too long (max 11 characters)">>
MsgRateLimited == <<"Too many SMS requests from this IP, please try again after 15 minutes">>
MsgSent == <<"SMS sent successfully!">>
MsgSentGeneric == <<"SMS sent successfully">>
MsgFailed == <<"Failed to send SMS">>
MsgInvalidNumber == <<"Invalid phone number format">>
MsgRegion == <<"SMS is not available for this number/region">>
MsgBlacklisted == <<"Phone number is blacklisted">>
MsgNotCapable == <<"Phone number is not SMS capable">>
MsgConfig == <<"SMS service configuration error">>

\* `Please wait ${remainingTime} seconds before sending another message to this number`
MsgWait(remainingTime) ==
    <<"Please wait ", ToString(remainingTime), " seconds before sending another message to this number">>

\* Math.ceil(x / 1000), x a non-negative integer
CeilSeconds(x) == (x + 999) \div 1000

\* The mutant of RemainingTime: Math.floor for Math.ceil.
RemainingTimeFloor(t, lastSent) == (CooldownMs - (t - lastSent)) \div 1000

\* Math.ceil((10000 - (now - lastSent)) / 1000)
RemainingTime(t, lastSent) == CeilSeconds(CooldownMs - (t - lastSent))

----------------------------------------------------------------------------
(* The cooldown map.                                                       *)

\* cooldown.get(key): the set of values found (empty: undefined)
MapGet(map, key) == IF key \in DOMAIN map THEN {map[key]} ELSE {}

\* The mutant of MapSet: nothing written.
MapSetSkipped(map, key, value) == [k \in DOMAIN map |-> map[k]]

\* cooldown.set(key, value)
MapSet(map, key, value) ==
    [k \in DOMAIN map \cup {key} |-> IF k = key THEN value ELSE map[k]]

\* cooldown.delete(key)
MapDelete(map, key) == [k \in DOMAIN map \ {key} |-> map[k]]

\* The mutant of CooldownActive: the window one millisecond longer.
CooldownActiveInclusive(lastSent, t) ==
    \E v \in lastSent : v # 0 /\ (t - v) <= CooldownMs

\* lastSent && (now - lastSent) < 10000
CooldownActive(lastSent, t) ==
    \E v \in lastSent : v # 0 /\ (t - v) < CooldownMs

\* The mutant of Expired: the retention horizon itself counted as expired.
ExpiredInclusive(t, timestamp) == t - timestamp >= RetentionMs

\* now - timestamp > 3600000
Expired(t, timestamp) == t - timestamp > RetentionMs

\* for (const [phone, timestamp] of cooldown.entries()) { if (...) cooldown.delete(phone) }
RECURSIVE SweepLoop(_, _, _)
SweepLoop(map, todo, t) ==
    IF todo = {} THEN map
    ELSE LET phone == CHOOSE k \in todo : TRUE
         IN  SweepLoop(IF Expired(t, map[phone]) THEN MapDelete(map, phone) ELSE map,
                       todo \ {phone}, t)

----------------------------------------------------------------------------
(* The rate limiter (express-rate-limit, configured at part_000 lines      *)
(* 16-24): a counter per source address over a fixed window.               *)

\* The store after one more request of ip at time t.
LimiterIncrement(store, ip, t) ==
    IF ip \in DOMAIN store /\ t < store[ip].resetTime
    THEN [store EXCEPT ![ip].count = @ + 1]
    ELSE [k \in DOMAIN store \cup {ip} |->
            IF k = ip THEN [count |-> 1, resetTime |-> t + RateWindowMs]
            ELSE store[k]]

\* The mutant of LimiterPasses: every request passed on.
LimiterPassesAlways(store, ip) == store[ip].count > 0

\* Whether the request just counted goes on to the route's handler.
LimiterPasses(store, ip) == store[ip].count <= RateMax

----------------------------------------------------------------------------
(* Requests.                                                               *)

Ids == DOMAIN reqs

\* The handler's locals and response, at the start of the handler.
NewRequest(ip, phone, sender, text) ==
    [pc |-> "validate", ip |-> ip, phone |-> phone, sender |-> sender,
     text |-> text,
     arrived |-> now,       \* when the request was received
     dest |-> <<>>,         \* let phone, once rewritten (line 69)
     t |-> 0,               \* const now (line 86)
     lastSent |-> {},       \* const lastSent (line 87)
     remainingTime |-> 0,   \* const remainingTime (line 89)
     status |-> 0,          \* the response's status, 0 while there is none
     error |-> <<>>,        \* the response's error
     message |-> <<>>,      \* the response's message
     messageId |-> "",      \* the response's messageId
     recipient |-> <<>>,    \* the response's recipient
     wake |-> 0]            \* server.js: when the simulated delay ends

\* The program points at which a handler is suspended in an await:
\* part_000 line 100 (the provider call), server.js line 61 (the delay).
SuspendedAlsoBeforeReserve == {"pending", "sleeping", "reserve"}

SuspendedAt == {"pending", "sleeping"}

\* Request r may take its next step: it holds the event loop, or the loop
\* is idle and r waits in an await.
Turn(r) ==
    \/ running = {r}
    \/ running = {} /\ reqs[r].pc \in SuspendedAt

\* Who holds the event loop once r has moved to program point pc.
After(r, pc) == IF pc \in SuspendedAt \cup {"done", "crashed"} THEN {} ELSE {r}

Respond(rec, status, fields) ==
    [f \in DOMAIN rec |->
        IF f = "pc" THEN "done"
        ELSE IF f = "status" THEN status
        ELSE IF f \in DOMAIN fields THEN fields[f]
        ELSE rec[f]]

----------------------------------------------------------------------------
(* The provider (twilioClient.messages.create): an opaque remote call,     *)
(* which resolves with a message sid or rejects with an error object.      *)

Sids == {"SM1"}

\* An error object: code 0 stands for an error without a code; hasMessage
\* is FALSE for an error whose message is undefined.
Err(code, hasMessage, message) ==
    [code |-> code, hasMessage |-> hasMessage, message |-> message]

RawAuth == <<"Authentication Error", " - invalid username">>
RawInvalid == <<"The 'To' number ", "+63917-123-4567", " is not a valid phone number">>
RawTimeout == <<"connect ETIMEDOUT">>

ProviderErrors ==
    { Err(21211, TRUE, RawInvalid), Err(21408, TRUE, <<"Permission to send an SMS has not been enabled">>),
      Err(21610, TRUE, <<"Attempt to send to unsubscribed recipient">>),
      Err(21614, TRUE, <<"'To' number is not a valid mobile number">>),
      Err(20003, TRUE, RawAuth), Err(0, TRUE, RawTimeout), Err(0, FALSE, <<>>) }

\* The errors of the specifications that are not about the error message.
FewErrors == { Err(0, TRUE, RawTimeout) }

\* The catch block reaches error.message.includes(...) with no message to
\* call it on: a TypeError leaves the handler (part_000 line 141).
CatchThrows(error) ==
    /\ error.code \notin {21211, 21408, 21610, 21614}
    /\ ~error.hasMessage

\* The mutant of ErrorMessage: the provider's text passed on to the caller.
ErrorMessageRaw(error) == <<"Failed to send SMS: ">> \o error.message

\* part_000 lines 130-143: the message of the 500 response.
ErrorMessage(error) ==
    IF error.code = 21211 THEN MsgInvalidNumber
    ELSE IF error.code = 21408 THEN MsgRegion
    ELSE IF error.code = 21610 THEN MsgBlacklisted
    ELSE IF error.code = 21614 THEN MsgNotCapable
    ELSE IF Includes(error.message, "Authentication Error") THEN MsgConfig
    ELSE MsgFailed

----------------------------------------------------------------------------
(* The regional server (src/unnamed/part_000).                             *)

\* The mutant of ValidationError: the checks after the phone's left out.
ValidationErrorLax(phone, sender, text) ==
    IF phone = <<>> \/ sender = <<>> \/ text = <<>> THEN MsgMissing
    ELSE IF ~isValidPhilippinePhone(phone) THEN MsgInvalidPh
    ELSE <<>>

\* part_000 lines 54-83: the error of the 400 response, <<>> when the
\* request is valid.
ValidationError(phone, sender, text) ==
    IF phone = <<>> \/ sender = <<>> \/ text = <<>> THEN MsgMissing
    ELSE IF ~isValidPhilippinePhone(phone) THEN MsgInvalidPh
    ELSE IF Len(text) > MaxTextLen THEN MsgTooLong
    ELSE IF Len(sender) > MaxSenderLen THEN MsgSenderTooLong
    ELSE <<>>

\* A request arrives at /api/sms: the rate limiter counts it, and answers
\* it or passes it on to the route's handler.
Arrive(ip, phone, sender, text, limit) ==
    LET r == Cardinality(Ids) + 1
        store == LimiterIncrement(hits, ip, now)
        rec == NewRequest(ip, phone, sender, text)
    IN  /\ app = "regional"
        /\ running = {}
        /\ r <= limit
        /\ hits' = store
        /\ IF LimiterPasses(store, ip)
           THEN /\ reqs' = [k \in Ids \cup {r} |-> IF k = r THEN rec ELSE reqs[k]]
                /\ running' = {r}
           ELSE /\ reqs' = [k \in Ids \cup {r} |->
                              IF k = r THEN Respond(rec, 429, [error |-> MsgRateLimited])
                              ELSE reqs[k]]
                /\ running' = {}
        /\ UNCHANGED <<app, now, cooldown, nextSweep>>

\* part_000 lines 52-83
Validate(r) ==
    LET rec == reqs[r]
        err == ValidationError(rec.phone, rec.sender, rec.text)
    IN  /\ app = "regional"
        /\ rec.pc = "validate"
        /\ Turn(r)
        /\ IF err # <<>>
           THEN /\ reqs' = [reqs EXCEPT ![r] = Respond(rec, 400, [error |-> err])]
                /\ running' = {}
           ELSE /\ reqs' = [reqs EXCEPT ![r].pc = "check",
                                        ![r].dest = RewritePhone(rec.phone)]
                /\ running' = After(r, "check")
        /\ UNCHANGED <<app, now, cooldown, hits, nextSweep>>

\* part_000 lines 85-93
Check(r) ==
    LET rec == reqs[r]
        lastSent == MapGet(cooldown, rec.dest)
    IN  /\ rec.pc = "check"
        /\ Turn(r)
        /\ IF CooldownActive(lastSent, now)
           THEN LET remainingTime == RemainingTime(now, cooldown[rec.dest])
                IN  /\ reqs' = [reqs EXCEPT ![r] =
                                  Respond([rec EXCEPT !.t = now, !.lastSent = lastSent,
                                                      !.remainingTime = remainingTime],
                                          429, [error |-> MsgWait(remainingTime)])]
                    /\ running' = {}
           ELSE /\ reqs' = [reqs EXCEPT ![r].pc = "reserve", ![r].t = now,
                                        ![r].lastSent = lastSent]
                /\ running' = After(r, "reserve")
        /\ UNCHANGED <<app, now, cooldown, hits, nextSweep>>

\* part_000 lines 95-104: the reservation, and the provider call is begun.
Reserve(r) ==
    LET rec == reqs[r]
    IN  /\ rec.pc = "reserve"
        /\ Turn(r)
        /\ cooldown' = MapSet(cooldown, rec.dest, rec.t)
        /\ reqs' = [reqs EXCEPT ![r].pc = "pending"]
        /\ running' = After(r, "pending")
        /\ UNCHANGED <<app, now, hits, nextSweep>>

\* part_000 lines 106-122: the provider call resolved.
ProviderSuccess(r, sid) ==
    LET rec == reqs[r]
    IN  /\ rec.pc = "pending"
        /\ Turn(r)
        /\ reqs' = [reqs EXCEPT ![r] =
                      Respond(rec, 200, [message |-> MsgSent, messageId |-> sid,
                                         recipient |-> rec.dest])]
        /\ running' = {}
        /\ UNCHANGED <<app, now, cooldown, hits, nextSweep>>

\* The mutant of Rollback: the reservation left in place.
RollbackKeeps(map, phone) == map

\* Another mutant of Rollback: the whole map cleared.
RollbackClears(map, phone) == [k \in {} |-> map[k]]

\* part_000 line 128: cooldown.delete(phone)
Rollback(map, phone) == MapDelete(map, phone)

\* part_000 lines 124-148: the provider call rejected.
ProviderFail(r, error) ==
    LET rec == reqs[r]
    IN  /\ rec.pc = "pending"
        /\ Turn(r)
        /\ cooldown' = Rollback(cooldown, rec.dest)
        /\ IF CatchThrows(error)
           THEN reqs' = [reqs EXCEPT ![r].pc = "crashed"]
           ELSE reqs' = [reqs EXCEPT ![r] =
                           Respond(rec, 500, [error |-> ErrorMessage(error)])]
        /\ running' = {}
        /\ UNCHANGED <<app, now, hits, nextSweep>>

\* part_000 lines 161-169: the setInterval callback.
Sweep ==
    /\ app = "regional"
    /\ running = {}
    /\ now >= nextSweep
    /\ cooldown' = SweepLoop(cooldown, DOMAIN cooldown, now)
    /\ nextSweep' = now + SweepIntervalMs
    /\ UNCHANGED <<app, now, hits, reqs, running>>

\* Time passes, between callbacks: a callback's synchronous code reads the
\* clock as of its start.
Tick(delta, horizon) ==
    /\ running = {}
    /\ now + delta <= horizon
    /\ now' = now + delta
    /\ UNCHANGED <<app, cooldown, hits, reqs, running, nextSweep>>

----------------------------------------------------------------------------
(* The generic server (src/server.js): no rate limiter, no cooldown, no    *)
(* provider; a simulated delay and a success response.                     *)

\* server.js lines 21-41
GenericValidationError(phone, sender, text) ==
    IF phone = <<>> \/ sender = <<>> \/ text = <<>> THEN MsgMissing
    ELSE IF ~GenericPhoneValid(phone) THEN MsgInvalidGeneric
    ELSE IF Len(text) > MaxTextLen THEN MsgTooLong
    ELSE <<>>

\* server.js line 18: the route's handler is entered.
GenericArrive(phone, sender, text, limit) ==
    LET r == Cardinality(Ids) + 1
    IN  /\ app = "generic"
        /\ running = {}
        /\ r <= limit
        /\ reqs' = [k \in Ids \cup {r} |->
                      IF k = r THEN NewRequest("", phone, sender, text) ELSE reqs[k]]
        /\ running' = {r}
        /\ UNCHANGED <<app, now, cooldown, hits, nextSweep>>

\* server.js lines 19-61
GenericValidate(r) ==
    LET rec == reqs[r]
        err == GenericValidationError(rec.phone, rec.sender, rec.text)
    IN  /\ app = "generic"
        /\ rec.pc = "validate"
        /\ Turn(r)
        /\ IF err # <<>>
           THEN /\ reqs' = [reqs EXCEPT ![r] = Respond(rec, 400, [error |-> err])]
                /\ running' = {}
           ELSE /\ reqs' = [reqs EXCEPT ![r].pc = "sleeping",
                                        ![r].wake = now + SimulatedDelayMs]
                /\ running' = After(r, "sleeping")
        /\ UNCHANGED <<app, now, cooldown, hits, nextSweep>>

\* server.js lines 63-77: the delay's timer fired.
GenericRespond(r, id) ==
    LET rec == reqs[r]
    IN  /\ rec.pc = "sleeping"
        /\ Turn(r)
        /\ now >= rec.wake
        /\ reqs' = [reqs EXCEPT ![r] =
                      Respond(rec, 200, [message |-> MsgSentGeneric, messageId |-> id])]
        /\ running' = {}
        /\ UNCHANGED <<app, now, cooldown, hits, nextSweep>>

----------------------------------------------------------------------------
(* Inputs.                                                                 *)

PhLocal == <<"0", "9", "1", "7", "1", "2", "3", "4", "5", "6", "7">>
PhIntl == <<"+", "6", "3", "9", "1", "7", "1", "2", "3", "4", "5", "6", "7">>
PhHyphen == <<"0", "9", "1", "7", "-", "1", "2", "3", "-", "4", "5", "6", "7">>
PhSpaced == <<" ", "0", "9", "1", "7", " ", "1", "2", "3", "4", "5", "6", "7">>
PhOther == <<"0", "9", "1", "8", "1", "2", "3", "4", "5", "6", "7">>
PhShort == <<"1", "2", "3", "4", "5">>
PhAlpha == <<"0", "9", "1", "7", "1", "2", "3", "4", "5", "6", "x">>

Hello == <<"H", "e", "l", "l", "o">>
Test == <<"T", "E", "S", "T">>

(* The state after the modules are loaded.                                 *)
InitOf(variant) ==
    /\ app = variant
    /\ now = 1                      \* Date.now() is positive
    /\ cooldown = <<>>
    /\ hits = <<>>
    /\ reqs = <<>>
    /\ running = {}
    /\ nextSweep = 1 + SweepIntervalMs

Init == InitOf("regional")

\* The cooldown specification: a few requests from one address, two
\* spellings of one number, the clock around the cooldown window.
Next ==
    \/ \E phone \in {PhLocal, PhHyphen} : Arrive("10.0.0.1", phone, Test, Hello, MaxReqs)
    \/ \E r \in Ids : Validate(r)
    \/ \E r \in Ids : Check(r)
    \/ \E r \in Ids : Reserve(r)
    \/ \E r \in Ids, sid \in Sids : ProviderSuccess(r, sid)
    \/ \E r \in Ids, error \in FewErrors : ProviderFail(r, error)
    \/ \E delta \in {CooldownMs - 1, CooldownMs} : Tick(delta, 1 + MaxWindows * CooldownMs)

Spec == Init /\ [][Next]_vars

\* The sweep specification: two numbers, the clock around the retention
\* horizon.
InitSweep == InitOf("regional")

NextSweep ==
    \/ \E phone \in {PhLocal, PhOther} : Arrive("10.0.0.1", phone, Test, Hello, MaxSweepReqs)
    \/ \E r \in Ids : Validate(r)
    \/ \E r \in Ids : Check(r)
    \/ \E r \in Ids : Reserve(r)
    \/ \E r \in Ids, sid \in Sids : ProviderSuccess(r, sid)
    \/ \E r \in Ids, error \in FewErrors : ProviderFail(r, error)
    \/ Sweep
    \/ \E delta \in {RetentionMs, RetentionMs + 1} :
          Tick(delta, 1 + MaxWindows * (RetentionMs + 1))

SpecSweep == InitSweep /\ [][NextSweep]_vars

\* The rate limiter's specification: one address, one number, the clock
\* around the rate window.
InitRate == InitOf("regional")

NextRate ==
    \/ \E ip \in {"10.0.0.1"} : Arrive(ip, PhLocal, Test, Hello, MaxRateReqs)
    \/ \E r \in Ids : Validate(r)
    \/ \E r \in Ids : Check(r)
    \/ \E r \in Ids : Reserve(r)
    \/ \E r \in Ids, sid \in Sids : ProviderSuccess(r, sid)
    \/ \E r \in Ids, error \in FewErrors : ProviderFail(r, error)
    \/ Sweep
    \/ \E delta \in {RateWindowMs - 1, RateWindowMs} : Tick(delta, RateHorizon)

SpecRate == InitRate /\ [][NextRate]_vars

\* The two-variant specification: either server, every kind of parameter,
\* every kind of provider error.
Phones == {<<>>, PhLocal, PhShort, PhAlpha}
Senders == {<<>>, Str(MaxSenderLen), Str(MaxSenderLen + 1)}
Texts == {<<>>, Str(MaxTextLen), Str(MaxTextLen + 1)}

InitVariants == InitOf("regional") \/ InitOf("generic")

NextVariants ==
    \/ \E phone \in Phones, sender \in Senders, text \in Texts :
          Arrive("10.0.0.1", phone, sender, text, MaxVariantReqs)
    \/ \E r \in Ids : Validate(r)
    \/ \E r \in Ids : Check(r)
    \/ \E r \in Ids : Reserve(r)
    \/ \E r \in Ids, sid \in Sids : ProviderSuccess(r, sid)
    \/ \E r \in Ids, error \in ProviderErrors : ProviderFail(r, error)
    \/ \E phone \in Phones, sender \in Senders, text \in Texts :
          GenericArrive(phone, sender, text, MaxVariantReqs)
    \/ \E r \in Ids : GenericValidate(r)
    \/ \E r \in Ids, id \in {"msg_k3j9x0q2a"} : GenericRespond(r, id)
    \/ \E delta \in {SimulatedDelayMs} : Tick(delta, VariantHorizon)

SpecVariants == InitVariants /\ [][NextVariants]_vars

\* The normalization specification: one request, its destination spelled
\* with either prefix, with separators before, inside and after the digits,
\* and with too few or too many digits.
NormPrefixes ==
    { <<"0", "9">>, <<"+", "6", "3", "9">>, <<" ", "0", "9">>, <<"0", "-", "9">>,
      <<"+", "6", "3", " ", "9">>, <<"0", "9", "0", "9">>, <<"9">> }
NormBodies ==
    { <<"1", "7", "1", "2", "3", "4", "5", "6", "7">>,
      <<"1", "7", "-", "1", "2", "3", "-", "4", "5", "6", "7">>,
      <<"1", "7", " ", "1", "2", "3", "\t", "4", "5", "6", "7">>,
      <<"1", "7", "1", "2", "3", "4", "5">>,
      <<"0", "9", "1", "7", "1", "2", "3", "4", "5">>,
      <<"1", "7", "1", "2", "3", "4", "5", "6", "x">> }
NormSuffixes == { <<>>, <<" ">>, <<"-", "-">> }
NormPhones ==
    { prefix \o body \o suffix :
        prefix \in NormPrefixes, body \in NormBodies, suffix \in NormSuffixes }

InitNormalize == InitOf("regional")

NextNormalize ==
    \/ \E phone \in NormPhones : Arrive("10.0.0.1", phone, Test, Hello, MaxNormReqs)
    \/ \E r \in Ids : Validate(r)
    \/ \E r \in Ids : Check(r)
    \/ \E r \in Ids : Reserve(r)
    \/ \E r \in Ids, sid \in Sids : ProviderSuccess(r, sid)
    \/ \E r \in Ids, error \in FewErrors : ProviderFail(r, error)

SpecNormalize == InitNormalize /\ [][NextNormalize]_vars

\* The two-destination specification: two numbers, the clock over one
\* cooldown window.
InitIndependent == InitOf("regional")

NextIndependent ==
    \/ \E phone \in {PhLocal, PhOther} : Arrive("10.0.0.1", phone, Test, Hello, MaxIndepReqs)
    \/ \E r \in Ids : Validate(r)
    \/ \E r \in Ids : Check(r)
    \/ \E r \in Ids : Reserve(r)
    \/ \E r \in Ids, sid \in Sids : ProviderSuccess(r, sid)
    \/ \E r \in Ids, error \in FewErrors : ProviderFail(r, error)
    \/ \E delta \in {CooldownMs} : Tick(delta, 1 + CooldownMs)

SpecIndependent == InitIndependent /\ [][NextIndependent]_vars

----------------------------------------------------------------------------
(* What the claims speak about.                                            *)

\* r's cooldown check has run.
Checked(r) == reqs[r].t # 0

\* r passed the cooldown check.
Allowed(r) ==
    \/ reqs[r].pc \in {"reserve", "pending", "crashed"}
    \/ reqs[r].pc = "done" /\ reqs[r].status \in {200, 500}

\* r wrote its reservation.
Reserved(r) == Allowed(r) /\ reqs[r].pc # "reserve"

\* r was denied by the cooldown check.
Denied(r) == Checked(r) /\ reqs[r].pc = "done" /\ reqs[r].status = 429

\* The least number of whole seconds that covers ms milliseconds.
SecondsCovering(ms) == CHOOSE n \in 0..(ms + 1) : 1000 * n >= ms /\ 1000 * (n - 1) < ms

\* In this step r's provider call fails and its catch block runs.
FailStep(r) ==
    /\ reqs[r].pc = "pending"
    /\ reqs'[r].pc \in {"done", "crashed"}
    /\ reqs'[r].status # 200

\* In this step r's cooldown check runs.
CheckStep(r) == reqs[r].pc = "check" /\ reqs'[r].pc # "check"

----------------------------------------------------------------------------
(* C1: every entry of the cooldown map is the reservation time of a        *)
(* request for that destination, and a request whose check finds an entry  *)
(* t0 with 0 <= t - t0 < 10000 is denied with status 429 and reports       *)
(* ceil((10000 - (t - t0)) / 1000) remaining seconds, a number from 1 to   *)
(* 10.                                                                     *)
C1_DeniedWithinWindow ==
    /\ \A d \in DOMAIN cooldown :
         \E p \in Ids : Reserved(p) /\ reqs[p].dest = d /\ reqs[p].t = cooldown[d]
    /\ \A r \in Ids : \A t0 \in reqs[r].lastSent :
         (Checked(r) /\ 0 <= reqs[r].t - t0 /\ reqs[r].t - t0 < 10000) =>
            /\ Denied(r)
            /\ reqs[r].remainingTime = SecondsCovering(10000 - (reqs[r].t - t0))
            /\ reqs[r].remainingTime \in 1..10
            /\ reqs[r].error = MsgWait(reqs[r].remainingTime)

\* A request denied 9999 ms after the reservation (1 second remains) and
\* one denied in the reservation's own millisecond (10 seconds remain).
C1_Witness ==
    \E r, q \in Ids :
        /\ Denied(r) /\ reqs[r].lastSent = {reqs[r].t - 9999} /\ reqs[r].remainingTime = 1
        /\ Denied(q) /\ reqs[q].lastSent = {reqs[q].t} /\ reqs[q].remainingTime = 10

(* C2: check-and-reserve is atomic.  From the state in which a handler has *)
(* read the cooldown entry and observed "allowed", the next step is that   *)
(* handler's write of its timestamp: the handler holds the event loop, the *)
(* entry is still what it read, no request arrives and no other request    *)
(* moves; so no two handlers are between their read and their write.       *)
C2_CheckAndReserveAtomic ==
    [][\A r \in Ids :
          reqs[r].pc = "reserve" =>
             /\ running = {r}
             /\ MapGet(cooldown, reqs[r].dest) = reqs[r].lastSent
             /\ \A q \in Ids \ {r} : reqs[q].pc # "reserve"
             /\ DOMAIN reqs' = Ids
             /\ \A q \in Ids \ {r} : reqs'[q] = reqs[q]
             /\ reqs'[r].pc = "pending"
             /\ cooldown' = MapSet(cooldown, reqs[r].dest, reqs[r].t)]_vars

\* A handler between its read and its write while another request for the
\* same destination is in flight.
C2_Witness ==
    \E r, q \in Ids :
        /\ r # q
        /\ reqs[r].pc = "reserve"
        /\ reqs[q].pc = "pending"
        /\ reqs[q].dest = reqs[r].dest

(* C3: while the provider call of a request for d is pending, no second    *)
(* request for d passes the cooldown check: no two requests for one        *)
(* destination are past the check with their provider calls both pending.  *)
C3_PendingBlocks ==
    \A r, q \in Ids :
        (r # q /\ reqs[r].pc = "pending" /\ reqs[q].dest = reqs[r].dest) =>
            reqs[q].pc \notin {"reserve", "pending"}

(* C4: two requests for one destination whose provider calls both          *)
(* succeeded have reservation times at least 10000 ms apart.               *)
C4_MinimumInterval ==
    \A r, q \in Ids :
        (/\ r # q
         /\ reqs[r].status = 200 /\ reqs[q].status = 200
         /\ reqs[r].dest = reqs[q].dest
         /\ reqs[r].t <= reqs[q].t) =>
            reqs[q].t - reqs[r].t >= 10000

(* C5: the step in which a provider call for d fails leaves no cooldown    *)
(* entry for d, and a cooldown check for d that finds no entry lets the    *)
(* request pass.                                                           *)
C5_RollbackAllowsRetry ==
    [][/\ \A r \in Ids : FailStep(r) => reqs[r].dest \notin DOMAIN cooldown'
       /\ \A q \in Ids :
            (CheckStep(q) /\ reqs[q].dest \notin DOMAIN cooldown) =>
                reqs'[q].pc = "reserve"]_vars

\* A failed request (status 500) and a later request for the same
\* destination that passed the check inside the failed one's window,
\* having found no entry.
C5_Witness ==
    \E f, q \in Ids :
        /\ f < q
        /\ reqs[f].status = 500
        /\ reqs[q].dest = reqs[f].dest
        /\ Allowed(q)
        /\ reqs[q].lastSent = {}
        /\ reqs[q].t - reqs[f].t < 10000

(* C8: the destination used as the cooldown key and as the provider's      *)
(* `to` is the canonical form of the raw input, so two spellings of one    *)
(* number share one cooldown entry.                                        *)
C8_KeyIsCanonical ==
    \A r, q \in Ids :
        (/\ reqs[r].dest # <<>> /\ reqs[q].dest # <<>>
         /\ CanonicalForm(reqs[r].phone) = CanonicalForm(reqs[q].phone)) =>
            /\ reqs[r].dest = CanonicalForm(reqs[r].phone)
            /\ reqs[r].dest = reqs[q].dest

----------------------------------------------------------------------------
(* The rate windows, told from the requests alone: the first request of an *)
(* address opens a window; a later one falls in the window of the request  *)
(* before it unless 900000 ms have passed since that window opened.        *)
(* (An operator's argument is evaluated once, a LET definition at each     *)
(* use: hence the operators with arguments.)                               *)

Earlier(r) == {q \in Ids : q < r /\ reqs[q].ip = reqs[r].ip}

\* The start of the window of request k, given the starts of the windows
\* of the requests before it.
StartAfter(starts, k) ==
    LET before == {q \in 1..(k - 1) : reqs[q].ip = reqs[k].ip}
    IN  IF before = {} THEN reqs[k].arrived
        ELSE LET p == CHOOSE q \in before : \A o \in before : o <= q
             IN  IF reqs[k].arrived - starts[p] < 900000 THEN starts[p]
                 ELSE reqs[k].arrived

Extended(starts, k) == Append(starts, StartAfter(starts, k))

\* The window starts of requests 1..k.
RECURSIVE WindowStarts(_)
WindowStarts(k) == IF k = 0 THEN <<>> ELSE Extended(WindowStarts(k - 1), k)

\* The place of every request among the requests of its address in its
\* window: 1 for the first.
PlacesIn(ws) ==
    [r \in Ids |->
        Cardinality({q \in Ids : q <= r /\ reqs[q].ip = reqs[r].ip /\ ws[q] = ws[r]})]

PlaceInWindow == PlacesIn(WindowStarts(Cardinality(Ids)))

\* The rate limiter answered r.
RateLimited(r) ==
    reqs[r].pc = "done" /\ reqs[r].status = 429 /\ reqs[r].error = MsgRateLimited

AllPlaced(place) == \A r \in Ids : RateLimited(r) <=> place[r] > 5

(* C6: per source address, the first 5 requests of a 15-minute window are  *)
(* passed on to the handler, the 6th and later ones are rejected, and a    *)
(* request that arrives once the window has elapsed opens a new window and *)
(* is passed on.                                                           *)
C6_RateLimiter == AllPlaced(PlaceInWindow)

\* Five requests passed on, the sixth of the window rejected, and a request
\* after the window passed on again.
C6_Witness ==
    \E r, q \in Ids :
        /\ r < q
        /\ reqs[r].ip = reqs[q].ip
        /\ Cardinality(Earlier(r)) = 5
        /\ \A p \in Earlier(r) : ~RateLimited(p) /\ reqs[r].arrived - reqs[p].arrived < 900000
        /\ RateLimited(r)
        /\ reqs[1].ip = reqs[q].ip
        /\ reqs[q].arrived - reqs[1].arrived = 900000
        /\ ~RateLimited(q) /\ Checked(q)

(* C7: a sweep at time now deletes exactly the entries with                *)
(* now - timestamp > 3600000 and leaves every other entry as it was; it    *)
(* removes no entry that is inside its 10 s cooldown window, and no        *)
(* destination that was denied before the sweep is allowed after it.       *)
C7_SweepExact ==
    [][nextSweep' # nextSweep =>
         /\ DOMAIN cooldown' \subseteq DOMAIN cooldown
         /\ \A d \in DOMAIN cooldown :
              /\ now - cooldown[d] > 3600000 => d \notin DOMAIN cooldown'
              /\ now - cooldown[d] <= 3600000 =>
                    d \in DOMAIN cooldown' /\ cooldown'[d] = cooldown[d]
              /\ now - cooldown[d] < 10000 => d \in DOMAIN cooldown'
              /\ CooldownActive(MapGet(cooldown, d), now) =>
                    CooldownActive(MapGet(cooldown', d), now')
         /\ reqs' = reqs]_vars

\* A sweep has just run: it removed the entry of a delivered message that
\* was more than 3600000 ms old (no request for that destination failed),
\* and kept an entry exactly 3600000 ms old.
C7_Witness ==
    /\ nextSweep = now + SweepIntervalMs
    /\ \E r \in Ids :
          /\ reqs[r].status = 200
          /\ reqs[r].dest \notin DOMAIN cooldown
          /\ now - reqs[r].t > 3600000
          /\ \A q \in Ids : reqs[q].dest = reqs[r].dest => reqs[q].status = 200
    /\ \E d \in DOMAIN cooldown : now - cooldown[d] = 3600000

----------------------------------------------------------------------------
\* The parameters for which a server answers 400.
Missing(r) == reqs[r].phone = <<>> \/ reqs[r].sender = <<>> \/ reqs[r].text = <<>>

RejectedByValidator(r) ==
    IF app = "regional" THEN ~isValidPhilippinePhone(reqs[r].phone)
    ELSE ~GenericPhoneValid(reqs[r].phone)

\* A request's handler no longer runs and never took the provider's path.
AnsweredOnly400(r) ==
    /\ reqs[r].pc = "done"
    /\ reqs[r].status = 400
    /\ reqs[r].t = 0
    /\ reqs[r].messageId = ""

(* C9, as amended: a request with a missing phone, sender or text, a       *)
(* destination rejected by the server's validator, a text longer than 160  *)
(* characters or, in the regional server, a sender longer than 11          *)
(* characters is answered with 400 by the step that validates it, and that *)
(* step changes nothing else: the cooldown map, the rate limiter's store   *)
(* and every other request stay as they were; no other request is answered *)
(* with 400; and an answered request takes no further step.                *)
C9_Rejected400 ==
    [][\A r \in Ids :
         /\ (reqs[r].pc = "validate" /\ reqs'[r].pc # "validate") =>
               IF \/ Missing(r)
                  \/ RejectedByValidator(r)
                  \/ Len(reqs[r].text) > 160
                  \/ app = "regional" /\ Len(reqs[r].sender) > 11
               THEN /\ AnsweredOnly400(r)'
                    /\ UNCHANGED <<cooldown, hits, nextSweep>>
                    /\ \A q \in Ids \ {r} : reqs'[q] = reqs[q]
               ELSE reqs'[r].status = 0 /\ reqs'[r].pc \in {"check", "sleeping"}
         /\ reqs[r].pc # "validate" => reqs'[r].status # 400 \/ reqs[r].status = 400
         /\ reqs[r].pc = "done" => reqs'[r] = reqs[r]]_vars

\* The regional server has answered 400 to a request whose only fault is a
\* sender of 12 characters, while the cooldown map held a reservation.
C9_Witness ==
    \E r \in Ids :
        /\ app = "regional"
        /\ AnsweredOnly400(r)
        /\ reqs[r].error = MsgSenderTooLong
        /\ cooldown # <<>>

(* C9, as claimed: whichever server runs, a validated request with a       *)
(* sender longer than 11 characters, or with phone=12345, has been         *)
(* answered with 400.                                                      *)
C9_AsClaimed ==
    \A r \in Ids :
        (/\ reqs[r].pc # "validate"
         /\ \/ Missing(r)
            \/ reqs[r].phone = PhShort
            \/ Len(reqs[r].text) > 160
            \/ Len(reqs[r].sender) > 11) =>
            reqs[r].status = 400

(* C10: the error of every 500 response is one of the six fixed messages,  *)
(* and no fragment of a provider error's text occurs in it.                *)
C10_SafeErrorText ==
    \A r \in Ids :
        reqs[r].status = 500 =>
            /\ reqs[r].error \in
                 { <<"Invalid phone number format">>,
                   <<"SMS is not available for this number/region">>,
                   <<"Phone number is blacklisted">>,
                   <<"Phone number is not SMS capable">>,
                   <<"SMS service configuration error">>,
                   <<"Failed to send SMS">> }
            /\ \A e \in ProviderErrors : \A i \in 1..Len(e.message) :
                 ~Includes(reqs[r].error, e.message[i])

\* A 500 response chosen by the error's text, and one chosen by its code
\* or with the generic message.
C10_Witness ==
    \E r, q \in Ids :
        /\ reqs[r].status = 500 /\ reqs[r].error = MsgConfig
        /\ reqs[q].status = 500 /\ reqs[q].error \in {MsgFailed, MsgBlacklisted}

----------------------------------------------------------------------------
(* C11: for every destination the regional validator accepts, the          *)
(* normalized string (the handler's phone after line 69) is accepted by    *)
(* the validator again, and normalizing it again yields the same string.   *)
C11_NormalizeIdempotent ==
    \A r \in Ids :
        (reqs[r].pc # "validate" /\ isValidPhilippinePhone(reqs[r].phone)) =>
            /\ reqs[r].dest = RewritePhone(reqs[r].phone)
            /\ isValidPhilippinePhone(reqs[r].dest)
            /\ RewritePhone(reqs[r].dest) = reqs[r].dest

\* An accepted destination in the local form with separators, which the
\* handler has rewritten and which went on to the provider.
C11_Witness ==
    \E r \in Ids :
        /\ reqs[r].pc = "pending"
        /\ StartsWith(reqs[r].phone, <<"0", "9">>)
        /\ Includes(reqs[r].phone, "-")
        /\ reqs[r].dest # reqs[r].phone
        /\ StartsWith(reqs[r].dest, <<"+", "6", "3", "9">>)

(* C12: a request that passed validation and the cooldown check and whose  *)
(* provider call has returned has been answered, with 200 or with 500,     *)
(* whatever the provider's error object holds: no handler ends without a   *)
(* response.                                                               *)
C12_OneTerminalState ==
    \A r \in Ids :
        (Reserved(r) /\ reqs[r].pc # "pending") =>
            /\ reqs[r].pc = "done"
            /\ reqs[r].status \in {200, 500}

(* C13: the step in which the cooldown check denies a request leaves the   *)
(* cooldown map and every other request as they were and ends the request  *)
(* with 429 and no provider call; a denied request takes no further step;  *)
(* and a check that finds an entry 10000 ms old or older lets the request  *)
(* pass, however many requests were denied in between.                     *)
C13_DenialNoEffect ==
    [][/\ \A r \in Ids :
            (CheckStep(r) /\ reqs'[r].status = 429) =>
               /\ cooldown' = cooldown
               /\ UNCHANGED <<hits, nextSweep>>
               /\ reqs'[r].pc = "done" /\ reqs'[r].messageId = ""
               /\ DOMAIN reqs' = Ids
               /\ \A q \in Ids \ {r} : reqs'[q] = reqs[q]
       /\ \A r \in Ids : Denied(r) => reqs'[r] = reqs[r]
       /\ \A q \in Ids :
            (CheckStep(q) /\ \A v \in MapGet(cooldown, reqs[q].dest) : now - v >= 10000) =>
               reqs'[q].pc = "reserve"]_vars

\* A delivered request reserved at t0, a request denied later inside the
\* window, and a third request allowed on the entry t0, less than 10000 ms
\* after the denial.
C13_Witness ==
    \E p, r, q \in Ids :
        /\ reqs[p].status = 200
        /\ Denied(r) /\ reqs[r].lastSent = {reqs[p].t} /\ reqs[r].t > reqs[p].t
        /\ Allowed(q) /\ reqs[q].lastSent = {reqs[p].t}
        /\ reqs[q].t > reqs[r].t /\ reqs[q].t - reqs[r].t < 10000

\* The provider calls made for r's address in r's rate window, given the
\* window starts of all requests.
CallsInWindow(ws, r) ==
    {q \in Ids : reqs[q].ip = reqs[r].ip /\ ws[q] = ws[r] /\ Reserved(q)}

AtMostFiveCalls(ws) == \A r \in Ids : Cardinality(CallsInWindow(ws, r)) <= 5

(* C14: a request rejected by the rate limiter has run no validation, no   *)
(* cooldown check and no provider call; the step that rejects it leaves    *)
(* the cooldown map and every other request as they were and starts no     *)
(* handler; the request takes no further step; and at most 5 provider      *)
(* calls are made for one source address within one rate window.           *)
C14_RejectedInvokesNothing ==
    /\ [](\A r \in Ids :
             RateLimited(r) =>
                /\ reqs[r].dest = <<>> /\ reqs[r].t = 0
                /\ reqs[r].lastSent = {} /\ reqs[r].messageId = "")
    /\ [](AtMostFiveCalls(WindowStarts(Cardinality(Ids))))
    /\ [][/\ \A n \in DOMAIN reqs' \ Ids :
              reqs'[n].error = MsgRateLimited =>
                 /\ reqs'[n].pc = "done" /\ reqs'[n].status = 429
                 /\ cooldown' = cooldown
                 /\ running' = {}
                 /\ \A q \in Ids : reqs'[q] = reqs[q]
           /\ \A d \in Ids : RateLimited(d) => reqs'[d] = reqs[d]]_vars

\* The sixth request of a window rejected, after five requests of the same
\* window that each called the provider, while the cooldown map held an
\* entry.
C14_Witness ==
    \E r \in Ids :
        /\ RateLimited(r)
        /\ Cardinality({q \in Earlier(r) : Reserved(q)}) = 5
        /\ \A q \in Earlier(r) : reqs[r].arrived - reqs[q].arrived < 900000
        /\ cooldown # <<>>

(* C15: the step in which a request's provider call succeeds leaves the    *)
(* cooldown map as it was, and the map then holds, for the request's       *)
(* normalized destination, the timestamp the request read before it        *)
(* reserved; the 200 response carries the provider's message id and the    *)
(* normalized destination as recipient ("+639171234567" for                *)
(* phone=09171234567).                                                     *)
C15_ReservationKept ==
    [][\A r \in Ids :
          (reqs[r].pc = "pending" /\ reqs'[r].status = 200) =>
             /\ cooldown' = cooldown
             /\ MapGet(cooldown', reqs[r].dest) = {reqs[r].t}
             /\ reqs'[r].messageId \in Sids
             /\ reqs'[r].recipient = reqs[r].dest
             /\ reqs[r].phone = PhLocal => reqs'[r].recipient = PhIntl]_vars

(* C16: a request's provider call begins in one step only, the one that    *)
(* leaves the map holding the request's timestamp for its normalized       *)
(* destination, and that step is taken by a request that passed the check  *)
(* and has not called before; when the call has returned, with success or  *)
(* with failure, the request takes no further step, so it never calls      *)
(* again.                                                                  *)
C16_CallOnceAfterReserve ==
    [][\A r \in Ids :
          /\ (reqs[r].pc # "pending" /\ reqs'[r].pc = "pending") =>
                /\ reqs[r].pc = "reserve"
                /\ reqs[r].status = 0
                /\ reqs'[r].dest = reqs[r].dest
                /\ reqs[r].dest = RewritePhone(reqs[r].phone)
                /\ MapGet(cooldown', reqs[r].dest) = {reqs[r].t}
          /\ reqs[r].pc = "pending" => reqs'[r].pc \in {"pending", "done", "crashed"}
          /\ reqs[r].pc \in {"done", "crashed"} => reqs'[r] = reqs[r]]_vars

\* A request whose call failed and was answered with 500, and a later
\* request for the same destination whose call is pending on its own
\* reservation.
C16_Witness ==
    \E r, q \in Ids :
        /\ r < q
        /\ reqs[r].pc = "done" /\ reqs[r].status = 500
        /\ reqs[q].dest = reqs[r].dest
        /\ reqs[q].pc = "pending"
        /\ MapGet(cooldown, reqs[q].dest) = {reqs[q].t}

(* C17: a step of a request for destination d leaves the cooldown entry of *)
(* every other destination as it was (present with the same timestamp, or  *)
(* absent); the step in which a request arrives leaves the whole map as it *)
(* was; and the cooldown check of a request reads the entry of its own     *)
(* destination only, which alone decides between denied and allowed.       *)
C17_DestinationsIndependent ==
    [][/\ \A r \in Ids :
            reqs'[r] # reqs[r] =>
               \A k \in (DOMAIN cooldown \cup DOMAIN cooldown') \ {reqs[r].dest} :
                   MapGet(cooldown', k) = MapGet(cooldown, k)
       /\ DOMAIN reqs' # Ids => cooldown' = cooldown
       /\ \A q \in Ids :
            CheckStep(q) =>
               /\ reqs'[q].lastSent = MapGet(cooldown, reqs[q].dest)
               /\ reqs'[q].status = 429 <=>
                     \E v \in MapGet(cooldown, reqs[q].dest) : now - v < 10000]_vars

\* A delivered request for one destination, a request for it denied, and
\* a later request for another destination that found no entry, reserved,
\* failed and was rolled back, the first destination's entry still there.
C17_Witness ==
    \E p, r, q \in Ids :
        /\ reqs[p].status = 200
        /\ Denied(r) /\ reqs[r].dest = reqs[p].dest
        /\ p < q
        /\ reqs[q].dest # reqs[p].dest
        /\ reqs[q].lastSent = {}
        /\ reqs[q].status = 500
        /\ reqs[q].t - reqs[p].t < 10000
        /\ cooldown = MapSet(<<>>, reqs[p].dest, reqs[p].t)

============================================================================
